---------------------------- MODULE Spec2Model ----------------------------
(***************************************************************************)
(* The FIFA ranking dashboard: the fetch cycle of routes/index.tsx         *)
(* (fetchRankings), its chart builder (updateChart) and the CSV / JSON     *)
(* exporters of utils/download.                                            *)
(*                                                                         *)
(* Time.  An instant is a whole number of hours since 1970-01-01T00:00Z    *)
(* (Date.getTime() / 3600000): the PubDate values and the clock readings   *)
(* of the model fall on whole hours.  A date string is the sequence of its *)
(* numeric fields in the order in which they are printed:                  *)
(*   toISOString().split('T')[0]   "2024-01-02"  is  <<2024, 1, 2>>        *)
(*   toLocaleDateString()  en-US   "1/2/2024"    is  <<1, 2, 2024>>        *)
(*   toLocaleDateString()  en-GB   "02/01/2024"  is  <<2, 1, 2024>>        *)
(* Display names (TeamName) and the gender / football type parameters are  *)
(* not part of the model.                                                  *)
(***************************************************************************)
EXTENDS Integers, Sequences, FiniteSets, TLC

\* ------------------------------------------------------------------------
\* Bounds of the model

\* The longest record list the provider returns for one entity.
MaxRecords == 2

\* The relative range buttons pressed are those of 1 .. MaxYears years.
MaxYears == 2

\* ------------------------------------------------------------------------
\* JavaScript values

\* Number.NaN, the time value of an Invalid Date, among the time values
\* (which are all >= 0 in the model).
NaN == -1

\* A chart value or a CSV field is << >> when it is null / the empty string
\* and <<n>> when it is the number n.
null == << >>
Num(n) == <<n>>

\* ------------------------------------------------------------------------
\* The calendar behind Date (proleptic Gregorian, days counted from 1970-01-01)

\* Days since the epoch of the civil date y-m-d; a day past the end of the
\* month runs over into the next month, as Date's own arithmetic does.
DaysFromCivil(y, m, d) ==
  LET yy  == IF m <= 2 THEN y - 1 ELSE y
      era == yy \div 400
      yoe == yy - era * 400
      mp  == IF m > 2 THEN m - 3 ELSE m + 9
      doy == (153 * mp + 2) \div 5 + d - 1
      doe == yoe * 365 + yoe \div 4 - yoe \div 100 + doy
  IN  era * 146097 + doe - 719468

\* The civil date <<y, m, d>> of a day number.
CivilFromDays(z) ==
  LET zz  == z + 719468
      era == zz \div 146097
      doe == zz - era * 146097
      yoe == (doe - doe \div 1460 + doe \div 36524 - doe \div 146096) \div 365
      doy == doe - (365 * yoe + yoe \div 4 - yoe \div 100)
      mp  == (5 * doy + 2) \div 153
      d   == doy - (153 * mp + 2) \div 5 + 1
      m   == IF mp < 10 THEN mp + 3 ELSE mp - 9
      y   == yoe + era * 400
  IN  << IF m <= 2 THEN y + 1 ELSE y, m, d >>

\* The instant of y-m-d hh:00 in UTC.
UTC(y, m, d, hh) == DaysFromCivil(y, m, d) * 24 + hh

\* ------------------------------------------------------------------------
\* State

VARIABLES
  tzOffset,            \* the viewer's time zone: local time = UTC + tzOffset hours
  locale,              \* the viewer's default locale
  selectedCountries,   \* signal: the selected entity codes, in selection order
  timeRange,           \* signal: "1y" .. "6y", "all" or "custom"
  customStartYear,     \* signal
  customEndYear,       \* signal
  loading,             \* signal
  results,             \* signal: the snapshots, as rendered (sorted by rank)
  historyData,         \* signal: the HistoryMap, a sequence of [code, history]
                       \* entries in key insertion order
  promises,            \* the retrieval tasks of the last fetch cycle started
  chartCanvas,         \* whether the canvas ref has been set
  chartInstance,       \* the chart handle: << >> (null) or <<[destroyed |-> n]>>,
                       \* n the number of destroy() calls it has received
  built,               \* what the step just taken built in updateChart, if it
                       \* got that far: << >> or <<[now, filteredHistoryData,
                       \* labels, datasets]>>, the locals of that call
  download,            \* the file the step just taken handed to the browser,
                       \* or the exception its export call ended with:
                       \* << >> or <<file>>
  superseded,          \* the retrievals of earlier fetch cycles that had not
                       \* settled when the next cycle started: [code, state]
  returned             \* the handler the step just taken entered and left at
                       \* its first guard, doing nothing ("" for none)

vars == << tzOffset, locale, selectedCountries, timeRange, customStartYear,
           customEndYear, loading, results, historyData, promises, chartCanvas,
           chartInstance, built, download, superseded, returned >>

\* ------------------------------------------------------------------------
\* Date

\* new Date(item.PubDate).getTime(): the PubDate of a record is its instant.
GetTime(pubDate) == IF pubDate \in Nat THEN pubDate ELSE NaN

\* The local calendar fields <<y, m, d>> of an instant.
LocalCivil(t) == CivilFromDays((t + tzOffset) \div 24)

\* Date.prototype.getFullYear(): the year in local time.
GetFullYear(t) == LocalCivil(t)[1]

\* Date.prototype.setFullYear(y): the local month, day and time of day kept.
SetFullYear(t, y) ==
  LET c  == LocalCivil(t)
      hh == (t + tzOffset) % 24
  IN  DaysFromCivil(y, c[2], c[3]) * 24 + hh - tzOffset

\* toISOString().split('T')[0]: the UTC day, printed year-month-day.
ToISODate(t) == CivilFromDays(t \div 24)

\* new Date("YYYY-MM-DD").getTime(): a date-only ISO string is UTC midnight.
ParseISODate(s) == DaysFromCivil(s[1], s[2], s[3]) * 24

\* The string "Invalid Date", which toLocaleDateString() gives for an
\* invalid date.
InvalidDate == << NaN, NaN, NaN >>

\* toLocaleDateString(): the local day, printed in the default locale's order.
ToLocaleDateString(t) ==
  IF t = NaN THEN InvalidDate
  ELSE LET c == LocalCivil(t)
       IN  IF locale = "en-US" THEN << c[2], c[3], c[1] >>
           ELSE << c[3], c[2], c[1] >>

\* new Date("a/b/yyyy").getTime(): a slash-separated string is read as
\* month/day/year at local midnight, whatever locale printed it; a month
\* above 12 gives an Invalid Date.
ParseSlashDate(s) ==
  IF s[1] \in 1..12 /\ s[2] \in 1..31
    THEN DaysFromCivil(s[3], s[1], s[2]) * 24 - tzOffset
    ELSE NaN

\* ------------------------------------------------------------------------
\* Array.prototype.sort over [k, v] pairs: k is the time value the compare
\* function subtracts, v the element.

\* (a, b) => a - b (ascending) or b - a (descending) says "a before b".
\* A NaN difference counts as 0.
Before(a, b, descending) ==
  /\ a.k # NaN
  /\ b.k # NaN
  /\ IF descending THEN a.k > b.k ELSE a.k < b.k

RECURSIVE InsertStable(_, _, _)
InsertStable(x, t, descending) ==
  IF t = << >> THEN << x >>
  ELSE IF Before(x, t[1], descending) THEN << x >> \o t
  ELSE << t[1] >> \o InsertStable(x, Tail(t), descending)

RECURSIVE StableSort(_, _)
StableSort(s, descending) ==
  IF s = << >> THEN << >>
  ELSE InsertStable(s[Len(s)], StableSort(SubSeq(s, 1, Len(s) - 1), descending),
                    descending)

\* The compare function is consistent unless a NaN key sits beside two
\* different time values (it then calls both equal to the NaN one).
Consistent(s) ==
  \/ \A i \in DOMAIN s : s[i].k # NaN
  \/ \A i, j \in DOMAIN s : (s[i].k # NaN /\ s[j].k # NaN) => s[i].k = s[j].k

Rearrangements(s) ==
  { [i \in DOMAIN s |-> s[f[i]]] :
      f \in { g \in [DOMAIN s -> DOMAIN s] : \A i, j \in DOMAIN s : g[i] = g[j] => i = j } }

\* The arrays sort may leave: the stable sorted order under a consistent
\* compare function, an implementation-defined order otherwise.
SortOutcomes(s, descending) ==
  IF Consistent(s) THEN { StableSort(s, descending) } ELSE Rearrangements(s)

Values(s) == [i \in DOMAIN s |-> s[i].v]

\* ------------------------------------------------------------------------
\* The environment: entities, provider responses, clock readings, inputs

\* The selectable entity codes (FIFA_COUNTRIES).
Codes == { "BRA", "USA" }

\* The records the provider may return (RankingHistoryItem).  The first lies
\* one year before the clock reading of the model; the second and the third
\* fall on the same UTC day, twelve hours apart.
RecordPool ==
  { [PubDate |-> UTC(2023, 12, 31, 23), Rank |-> 5, TotalPoints |-> 1500],
    [PubDate |-> UTC(2024, 1, 2, 10),  Rank |-> 3, TotalPoints |-> 1650],
    [PubDate |-> UTC(2024, 1, 2, 22),  Rank |-> 2, TotalPoints |-> 1700],
    [PubDate |-> UTC(2024, 2, 1, 10),  Rank |-> 1, TotalPoints |-> 1800] }

RECURSIVE SeqsUpTo(_, _)
\* The sequences of at most n different elements of S.
SeqsUpTo(S, n) ==
  IF n = 0 THEN { << >> }
  ELSE LET shorter == SeqsUpTo(S, n - 1)
       IN  shorter \cup { Append(q, x) : q \in { r \in shorter : Len(r) = n - 1 },
                                          x \in S }

Distinct(q) == \A i, j \in DOMAIN q : q[i] = q[j] => i = j

\* The record lists of a response body: unordered, at most MaxRecords long.
RecordLists == { q \in SeqsUpTo(RecordPool, MaxRecords) : Distinct(q) }

\* What one retrieval can come to: fetch() rejects; res.json() rejects on a
\* body that is not JSON; the body is the route's { error } object, without
\* rankings; the body carries a rankings array.
Responses ==
  { [kind |-> "reject",  rankings |-> << >>],
    [kind |-> "notjson", rankings |-> << >>],
    [kind |-> "error",   rankings |-> << >>] }
  \cup { [kind |-> "ok", rankings |-> q] : q \in RecordLists }

\* The readings of the clock (new Date()) when updateChart starts: the last
\* hour of 2024 in UTC, 06:00 on New Year's Day in UTC+7.
Clocks == { UTC(2024, 12, 31, 23) }

\* The clock when the component is constructed, earlier that day.
ConstructedAt == UTC(2024, 12, 31, 10)

\* The viewer's time zones (UTC and UTC+7) and locales.
TzOffsets == { 0, 7 }
Locales == { "en-US", "en-GB" }

\* The relative range buttons, and parseInt(range.replace("y", "")).
RangeButtons == << "1y", "2y", "3y", "4y", "5y", "6y" >>
ParseYears(range) == CHOOSE n \in DOMAIN RangeButtons : RangeButtons[n] = range

\* The values timeRange takes in the model.
RelativeRanges == { RangeButtons[n] : n \in 1 .. MaxYears }
TimeRanges == RelativeRanges \cup { "all", "custom" }

\* What parseInt gives for the custom-year inputs.
YearInputs == { 2024 }

\* ------------------------------------------------------------------------
\* Arrays and objects

Range(s) == { s[i] : i \in DOMAIN s }

RECURSIVE Pick(_, _)
\* Array.prototype.filter: the elements of h at the indices J, in order.
Pick(h, J) ==
  IF h = << >> THEN << >>
  ELSE LET n == Len(h)
           rest == Pick(SubSeq(h, 1, n - 1), J)
       IN  IF n \in J THEN Append(rest, h[n]) ELSE rest

\* A faulty variant of Unique that loses the first element; C6 must tell it
\* from Unique.
UniqueButFirst(s) ==
  LET firsts == { i \in DOMAIN s : i > 1 /\ \A j \in 1 .. (i - 1) : s[j] # s[i] }
      Nth(n) == CHOOSE i \in firsts : Cardinality({ j \in firsts : j < i }) = n - 1
  IN  [n \in 1 .. Cardinality(firsts) |-> s[Nth(n)]]

RECURSIVE Unique(_)
\* Array.from(new Set(s)): the first occurrences, in insertion order.
Unique(s) ==
  IF s = << >> THEN << >>
  ELSE LET n == Len(s)
           rest == Unique(SubSeq(s, 1, n - 1))
       IN  IF s[n] \in Range(rest) THEN rest ELSE Append(rest, s[n])

RECURSIVE AllItems(_)
\* Object.values(obj).forEach(history => history.forEach(...)): every item,
\* entity after entity.
AllItems(obj) ==
  IF obj = << >> THEN << >>
  ELSE AllItems(SubSeq(obj, 1, Len(obj) - 1)) \o obj[Len(obj)].history

\* Object.keys(obj).
Keys(obj) == [i \in DOMAIN obj |-> obj[i].code]

\* obj[code] = history: a new key goes last, an old one keeps its place.
ObjectSet(obj, code, history) ==
  IF \E i \in DOMAIN obj : obj[i].code = code
    THEN [i \in DOMAIN obj |->
            IF obj[i].code = code THEN [code |-> code, history |-> history] ELSE obj[i]]
    ELSE Append(obj, [code |-> code, history |-> history])

\* Array.prototype.find, hits being the indexes of h the callback accepts:
\* << >> (undefined) or <<the first match>>.
Find(h, hits) ==
  IF hits = {} THEN << >>
  ELSE << h[CHOOSE i \in hits : \A j \in hits : i <= j] >>

\* new Map(pairs).get(key), hits being the indexes of the pairs of h with
\* that key: << >> (undefined) or <<the value of the last such pair>>, a
\* later pair overwriting an earlier one.
MapGet(h, hits) ==
  IF hits = {} THEN << >>
  ELSE << h[CHOOSE i \in hits : \A j \in hits : i >= j] >>

\* ------------------------------------------------------------------------
\* fetchRankings: one retrieval task (the async callback of the map)

\* rankings.sort((a, b) => new Date(b.PubDate).getTime() -
\*                         new Date(a.PubDate).getTime())
SortRankings(rankings) ==
  { Values(q) :
      q \in SortOutcomes([i \in DOMAIN rankings |->
                            [k |-> GetTime(rankings[i].PubDate), v |-> rankings[i]]],
                         TRUE) }

\* A faulty variant of TaskItem that reads the snapshot off the far end of
\* the sorted array; C3 must tell it from TaskItem.
TaskItemFromLast(code, rankings) ==
  LET current  == rankings[Len(rankings)]
      previous == IF Len(rankings) >= 2 THEN rankings[Len(rankings) - 1] ELSE current
  IN  [ result  |-> [ countryCode  |-> code,
                      rank         |-> current.Rank,
                      previousRank |-> previous.Rank,
                      points       |-> current.TotalPoints,
                      date         |-> current.PubDate ],
        history |-> rankings,
        code    |-> code ]

\* The value the task returns for a sorted, non-empty rankings array.
TaskItem(code, rankings) ==
  LET current  == rankings[1]
      previous == IF Len(rankings) >= 2 THEN rankings[2] ELSE current
  IN  [ result  |-> [ countryCode  |-> code,
                      rank         |-> current.Rank,
                      previousRank |-> previous.Rank,
                      points       |-> current.TotalPoints,
                      date         |-> current.PubDate ],
        history |-> rankings,
        code    |-> code ]

\* A task before its response: no data.rankings yet, no value.
Pending == [state |-> "pending", rankings |-> << >>, value |-> << >>]

\* The states a task can settle in on a response: rejected, fulfilled with
\* null (value << >>) or fulfilled with an item.  rankings is data.rankings
\* as the response brought it (<< >> when it brought none).
TaskOutcomes(code, response) ==
  IF response.kind \in { "reject", "notjson" }
    THEN { [state |-> "rejected", rankings |-> << >>, value |-> << >>] }
  ELSE IF response.kind = "error" \/ Len(response.rankings) = 0
    THEN { [state |-> "fulfilled", rankings |-> << >>, value |-> << >>] }
  ELSE { [state |-> "fulfilled", rankings |-> response.rankings,
          value |-> << TaskItem(code, sorted) >>] :
           sorted \in SortRankings(response.rankings) }

\* fetchedData.forEach(item => { newResults.push(item.result);
\*                               newHistory[item.code] = item.history })
RECURSIVE NewResults(_)
NewResults(tasks) ==
  IF tasks = << >> THEN << >>
  ELSE LET n == Len(tasks)
           rest == NewResults(SubSeq(tasks, 1, n - 1))
       IN  IF tasks[n].value = << >> THEN rest
           ELSE Append(rest, tasks[n].value[1].result)

\* A faulty variant of NewHistory that gives a task without a value an empty
\* entry; C2 must tell it from NewHistory.
RECURSIVE NewHistoryWithEmpty(_)
NewHistoryWithEmpty(tasks) ==
  IF tasks = << >> THEN << >>
  ELSE LET n == Len(tasks)
           rest == NewHistoryWithEmpty(SubSeq(tasks, 1, n - 1))
       IN  IF tasks[n].value = << >> THEN ObjectSet(rest, tasks[n].code, << >>)
           ELSE ObjectSet(rest, tasks[n].value[1].code, tasks[n].value[1].history)

RECURSIVE NewHistory(_)
NewHistory(tasks) ==
  IF tasks = << >> THEN << >>
  ELSE LET n == Len(tasks)
           rest == NewHistory(SubSeq(tasks, 1, n - 1))
       IN  IF tasks[n].value = << >> THEN rest
           ELSE ObjectSet(rest, tasks[n].value[1].code, tasks[n].value[1].history)

\* The view's <For each={results().sort((a, b) => a.rank - b.rank)}>: the
\* rendering sorts the array held by the signal in place.
RenderResults(newResults) ==
  Values(StableSort([i \in DOMAIN newResults |->
                       [k |-> newResults[i].rank, v |-> newResults[i]]], FALSE))

\* ------------------------------------------------------------------------
\* updateChart

\* COLORS.length; a color is its index in COLORS.
ColorsLength == 30

\* a >= b on numbers: false when either is NaN.
GE(a, b) == a # NaN /\ b # NaN /\ a >= b

\* The filter callback on one item.  t0 is `now`; clock is what new Date()
\* returns when the callback builds cutoffDate.
KeepItem(item, range, startYear, endYear, t0, clock) ==
  LET itemDate == GetTime(item.PubDate)
  IN  IF range = "custom"
        THEN LET year == IF itemDate = NaN THEN NaN ELSE GetFullYear(itemDate)
             IN  GE(year, startYear) /\ GE(endYear, year)
      ELSE IF range # "all"
        THEN LET years      == ParseYears(range)
                 cutoffDate == SetFullYear(clock, GetFullYear(t0) - years)
             IN  GE(itemDate, cutoffDate)
      ELSE TRUE

RECURSIVE ItemsBefore(_, _)
\* How many items the forEach has filtered before it reaches entity i.
ItemsBefore(obj, i) ==
  IF i <= 1 THEN 0 ELSE ItemsBefore(obj, i - 1) + Len(obj[i - 1].history)

\* filteredHistoryData.  The clock reads t0 for `now` and for the first
\* `early` filter callbacks, and one hour more for the callbacks after them
\* (early = the number of items: the hour does not turn during the call).
FilterHistory(obj, range, startYear, endYear, t0, early) ==
  [i \in DOMAIN obj |->
     LET history == obj[i].history
         clock(j) == IF ItemsBefore(obj, i) + j <= early THEN t0 ELSE t0 + 1
     IN  [ code    |-> obj[i].code,
           history |-> Pick(history,
                            { j \in DOMAIN history :
                                KeepItem(history[j], range, startYear, endYear,
                                         t0, clock(j)) }) ]]

\* new Date(item.PubDate).toLocaleDateString()
ChartKey(item) == ToLocaleDateString(GetTime(item.PubDate))

\* Array.from(allDates), before the sort.
ChartDates(filtered) ==
  LET items == AllItems(filtered)
  IN  Unique([i \in DOMAIN items |-> ChartKey(items[i])])

\* labels: .sort((a, b) => new Date(a).getTime() - new Date(b).getTime())
ChartLabels(filtered) ==
  LET dates == ChartDates(filtered)
  IN  { Values(q) :
          q \in SortOutcomes([i \in DOMAIN dates |->
                                [k |-> ParseSlashDate(dates[i]), v |-> dates[i]]],
                             FALSE) }

\* A faulty variant of ChartValue that plots a missing observation as 0; C7
\* must tell it from ChartValue.
ChartValueZeroGap(history, date) ==
  LET got == MapGet(history, { i \in DOMAIN history : ChartKey(history[i]) = date })
  IN  IF got = << >> THEN Num(0) ELSE Num(got[1].Rank)

\* rankMap.get(date) || null
ChartValue(history, date) ==
  LET got == MapGet(history, { i \in DOMAIN history : ChartKey(history[i]) = date })
  IN  IF got = << >> \/ got[1].Rank = 0 THEN null ELSE Num(got[1].Rank)

\* The colors index may get: COLORS[index], or a random entry of COLORS
\* once the palette is used up.
ColorChoices(index) ==
  IF index < ColorsLength THEN { index } ELSE 0 .. (ColorsLength - 1)

RECURSIVE ColorOutcomes(_)
\* The color sequences the datasets of n entities may get.
ColorOutcomes(n) ==
  IF n = 0 THEN { << >> }
  ELSE { Append(c, x) : c \in ColorOutcomes(n - 1), x \in ColorChoices(n - 1) }

Datasets(filtered, labels, colors) ==
  [i \in DOMAIN filtered |->
     [ code        |-> filtered[i].code,
       data        |-> [l \in DOMAIN labels |-> ChartValue(filtered[i].history, labels[l])],
       borderColor |-> colors[i] ]]

\* The most destroy() calls the model lets one chart instance receive.
MaxDestroyed == 2

\* The instance, if any, has received fewer than MaxDestroyed destroy() calls.
Destroyable(instance) ==
  IF instance = << >> THEN TRUE ELSE instance[1].destroyed < MaxDestroyed

\* chartInstance.destroy(), when there is an instance (<<chart>>).
Destroy(instance) ==
  IF instance = << >> THEN << >>
  ELSE << [destroyed |-> instance[1].destroyed + 1] >>

\* The clock readings of one call: `now`, and the number of filter callbacks
\* that still read the same hour.  Only a relative range reads the clock in
\* the callback.
ClockReadings(obj, range) ==
  Clocks \X (IF range \in RelativeRanges THEN 0 .. Len(AllItems(obj))
                                         ELSE { Len(AllItems(obj)) })

\* What updateChart can build from a non-empty historyData: its locals when
\* it calls new Chart.
ChartBuilds(obj, range, startYear, endYear) ==
  UNION { LET filtered == FilterHistory(obj, range, startYear, endYear, c[1], c[2])
          IN  { [ now                 |-> c[1],
                  filteredHistoryData |-> filtered,
                  labels              |-> labels,
                  datasets            |-> Datasets(filtered, labels, colors) ] :
                  labels \in ChartLabels(filtered),
                  colors \in ColorOutcomes(Len(obj)) } :
          c \in ClockReadings(obj, range) }

\* updateChart(), reading the signals' values given as arguments.  The
\* model does not take the step that would give an instance more than
\* MaxDestroyed destroy() calls.
UpdateChart(canvas, obj, range, startYear, endYear) ==
  IF ~canvas
    THEN /\ chartInstance' = chartInstance
         /\ built' = << >>
  ELSE IF obj = << >>
    THEN /\ Destroyable(chartInstance)
         /\ chartInstance' = Destroy(chartInstance)
         /\ built' = << >>
  ELSE /\ Destroyable(chartInstance)
       /\ chartInstance' = << [destroyed |-> 0] >>
       /\ built' \in { << b >> : b \in ChartBuilds(obj, range, startYear, endYear) }

\* ------------------------------------------------------------------------
\* downloadCSV, downloadJSON

\* new Date(item.PubDate).toISOString().split('T')[0]
ExportKey(item) == ToISODate(GetTime(item.PubDate))

\* sortedDates: .sort((a, b) => new Date(b).getTime() - new Date(a).getTime())
SortedDates(obj) ==
  LET items == AllItems(obj)
      dates == Unique([i \in DOMAIN items |-> ExportKey(items[i])])
  IN  { Values(q) :
          q \in SortOutcomes([i \in DOMAIN dates |->
                                [k |-> ParseISODate(dates[i]), v |-> dates[i]]],
                             TRUE) }

\* history.find(h => ...toISOString().split('T')[0] === date)
ExportItem(history, date) ==
  Find(history, { i \in DOMAIN history : ExportKey(history[i]) = date })

\* One CSV row: the date, then a rank field and a points field per entity.
CsvRow(obj, date) ==
  [ date   |-> date,
    fields |-> [i \in DOMAIN obj |->
                  LET item == ExportItem(obj[i].history, date)
                  IN  IF item = << >> THEN << null, null >>
                      ELSE << Num(item[1].Rank), Num(item[1].TotalPoints) >>] ]

\* One JSON entry: the date, then an entry per entity that has an item.
JsonEntry(obj, date) ==
  [ date    |-> date,
    entries |-> LET present == Pick(obj, { i \in DOMAIN obj :
                                           ExportItem(obj[i].history, date) # << >> })
                IN  [i \in DOMAIN present |->
                       LET item == ExportItem(present[i].history, date)[1]
                       IN  [ code   |-> present[i].code,
                             rank   |-> item.Rank,
                             points |-> item.TotalPoints ]] ]

\* toISOString() throws a RangeError on an invalid date: the export call
\* ends there, in the forEach that collects the dates.
Throws(obj) ==
  LET items == AllItems(obj)
  IN  \E j \in DOMAIN items : GetTime(items[j].PubDate) = NaN

\* The exception that ends the call, in place of a file.
RangeError == << [type |-> "RangeError"] >>

\* The file downloadCSV hands to the browser: none (<< >>) for an empty
\* historyData.
CsvFiles(obj) ==
  IF obj = << >> THEN { << >> }
  ELSE IF Throws(obj) THEN { RangeError }
  ELSE { << [ type   |-> "csv",
              header |-> Keys(obj),
              rows   |-> [r \in DOMAIN dates |-> CsvRow(obj, dates[r])] ] >> :
           dates \in SortedDates(obj) }

JsonFiles(obj) ==
  IF obj = << >> THEN { << >> }
  ELSE IF Throws(obj) THEN { RangeError }
  ELSE { << [ type   |-> "json",
              output |-> [r \in DOMAIN dates |-> JsonEntry(obj, dates[r])] ] >> :
           dates \in SortedDates(obj) }

\* ------------------------------------------------------------------------
\* The dashboard

Init ==
  /\ tzOffset \in TzOffsets
  /\ locale \in Locales
  /\ selectedCountries = << >>
  /\ timeRange = "all"
  /\ customStartYear = GetFullYear(ConstructedAt) - 10
  /\ customEndYear = GetFullYear(ConstructedAt)
  /\ loading = FALSE
  /\ results = << >>
  /\ historyData = << >>
  /\ promises = << >>
  /\ chartCanvas = FALSE
  /\ chartInstance = << >>
  /\ built = << >>
  /\ download = << >>
  /\ superseded = << >>
  /\ returned = ""

env == << tzOffset, locale >>
range == << timeRange, customStartYear, customEndYear >>

\* toggleCountry(code)
ToggleCountry(code) ==
  /\ selectedCountries' =
       IF code \in Range(selectedCountries)
         THEN SelectSeq(selectedCountries, LAMBDA c : c # code)
         ELSE Append(selectedCountries, code)
  /\ download' = << >>
  /\ built' = << >>
  /\ UNCHANGED << env, range, loading, results, historyData, promises, chartCanvas,
                  chartInstance >>
  /\ returned' = ""
  /\ UNCHANGED superseded

\* The "Clear all" button (shown while something is selected):
\* setSelectedCountries([]).
ClearAll ==
  /\ selectedCountries # << >>
  /\ selectedCountries' = << >>
  /\ download' = << >>
  /\ built' = << >>
  /\ returned' = ""
  /\ UNCHANGED << env, range, loading, results, historyData, promises, chartCanvas,
                  chartInstance, superseded >>

\* The most retrievals of earlier cycles the model keeps in flight.
MaxSuperseded == 1

\* The states of a task that has not settled: awaiting fetch(), awaiting
\* res.json().
Unsettled == { "pending", "responded" }

\* The retrievals among tasks that have not settled.
StillPending(tasks) ==
  LET pending == Pick(tasks, { i \in DOMAIN tasks : tasks[i].state \in Unsettled })
  IN  [i \in DOMAIN pending |-> [code |-> pending[i].code, state |-> pending[i].state]]

\* A faulty variant of FetchRankings for a button that is not disabled while
\* loading; C13 must tell it from FetchRankings.
FetchRankingsWhileLoading ==
  /\ selectedCountries # << >>
  /\ Len(StillPending(superseded) \o StillPending(promises)) <= MaxSuperseded
  /\ superseded' = StillPending(superseded) \o StillPending(promises)
  /\ loading' = TRUE
  /\ results' = << >>
  /\ historyData' = << >>
  /\ promises' = [i \in DOMAIN selectedCountries |->
                    [code |-> selectedCountries[i]] @@ Pending]
  /\ download' = << >>
  /\ built' = << >>
  /\ returned' = ""
  /\ UNCHANGED << env, range, selectedCountries, chartCanvas, chartInstance >>

\* The "Get Rankings" button (disabled while loading() or with nothing
\* selected): fetchRankings up to its await.  The retrievals of the cycle
\* before that are still in flight stay in flight.
FetchRankings ==
  /\ ~loading
  /\ selectedCountries # << >>
  /\ Len(StillPending(superseded) \o StillPending(promises)) <= MaxSuperseded
  /\ superseded' = StillPending(superseded) \o StillPending(promises)
  /\ loading' = TRUE
  /\ results' = << >>
  /\ historyData' = << >>
  /\ promises' = [i \in DOMAIN selectedCountries |->
                    [code |-> selectedCountries[i]] @@ Pending]
  /\ download' = << >>
  /\ built' = << >>
  /\ returned' = ""
  /\ UNCHANGED << env, range, selectedCountries, chartCanvas, chartInstance >>

\* fetch() resolves for one retrieval: its callback runs to await res.json().
ResponseArrives(i) ==
  /\ i \in DOMAIN promises
  /\ promises[i].state = "pending"
  /\ promises' = [promises EXCEPT ![i].state = "responded"]
  /\ download' = << >>
  /\ built' = << >>
  /\ returned' = ""
  /\ UNCHANGED << env, range, selectedCountries, loading, results, historyData,
                  chartCanvas, chartInstance, superseded >>

\* One retrieval settles: fetch() rejects, or res.json() settles and the
\* task's callback runs to its return (or throws).  It may do so after the
\* cycle has failed.
TaskSettles(i, response) ==
  /\ i \in DOMAIN promises
  /\ promises[i].state = (IF response.kind = "reject" THEN "pending" ELSE "responded")
  /\ \E outcome \in TaskOutcomes(promises[i].code, response) :
       promises' = [promises EXCEPT ![i] = [code |-> promises[i].code] @@ outcome]
  /\ download' = << >>
  /\ built' = << >>
  /\ UNCHANGED << env, range, selectedCountries, loading, results, historyData,
                  chartCanvas, chartInstance >>
  /\ returned' = ""
  /\ UNCHANGED superseded

\* fetch() resolves for a retrieval of an earlier cycle: its callback runs
\* to await res.json().
LateResponseArrives(k) ==
  /\ k \in DOMAIN superseded
  /\ superseded[k].state = "pending"
  /\ superseded' = [superseded EXCEPT ![k].state = "responded"]
  /\ download' = << >>
  /\ built' = << >>
  /\ returned' = ""
  /\ UNCHANGED << env, range, selectedCountries, loading, results, historyData,
                  promises, chartCanvas, chartInstance >>

\* A retrieval of an earlier cycle settles, on whatever response: fetch()
\* rejects, or res.json() settles and its callback runs to its return (or
\* throws); the Promise.all it was given to has already rejected.
LateTaskSettles(k) ==
  /\ k \in DOMAIN superseded
  /\ superseded[k].state \in Unsettled
  /\ superseded' = [superseded EXCEPT ![k].state = "settled"]
  /\ download' = << >>
  /\ built' = << >>
  /\ returned' = ""
  /\ UNCHANGED << env, range, selectedCountries, loading, results, historyData,
                  promises, chartCanvas, chartInstance >>

\* await Promise.all(promises) rejects, as soon as one task has rejected:
\* catch, finally.
FetchFails ==
  /\ loading
  /\ \E i \in DOMAIN promises : promises[i].state = "rejected"
  /\ loading' = FALSE
  /\ download' = << >>
  /\ built' = << >>
  /\ UNCHANGED << env, range, selectedCountries, results, historyData, promises,
                  chartCanvas, chartInstance >>
  /\ returned' = ""
  /\ UNCHANGED superseded

\* await Promise.all(promises) resolves, every task fulfilled: the rest of
\* the try block, then finally.  Rendering non-empty results sets the canvas
\* ref and sorts the results.
FetchCompletes ==
  /\ loading
  /\ \A i \in DOMAIN promises : promises[i].state = "fulfilled"
  /\ LET newResults == NewResults(promises)
         newHistory == NewHistory(promises)
     IN  /\ results' = RenderResults(newResults)
         /\ chartCanvas' = (chartCanvas \/ newResults # << >>)
         /\ historyData' = newHistory
         /\ UpdateChart(chartCanvas', newHistory, timeRange, customStartYear,
                        customEndYear)
  /\ loading' = FALSE
  /\ download' = << >>
  /\ UNCHANGED << env, range, selectedCountries, promises >>
  /\ returned' = ""
  /\ UNCHANGED superseded

\* A range button, or the Custom button (shown with the results).
SetTimeRange(r) ==
  /\ results # << >>
  /\ timeRange' = r
  /\ UpdateChart(chartCanvas, historyData, r, customStartYear, customEndYear)
  /\ download' = << >>
  /\ UNCHANGED << env, customStartYear, customEndYear, selectedCountries, loading,
                  results, historyData, promises, chartCanvas >>
  /\ returned' = ""
  /\ UNCHANGED superseded

\* The custom start year input (shown while the range is "custom").
SetCustomStartYear(y) ==
  /\ results # << >>
  /\ timeRange = "custom"
  /\ customStartYear' = y
  /\ UpdateChart(chartCanvas, historyData, timeRange, y, customEndYear)
  /\ download' = << >>
  /\ UNCHANGED << env, timeRange, customEndYear, selectedCountries, loading,
                  results, historyData, promises, chartCanvas >>
  /\ returned' = ""
  /\ UNCHANGED superseded

\* The custom end year input.
SetCustomEndYear(y) ==
  /\ results # << >>
  /\ timeRange = "custom"
  /\ customEndYear' = y
  /\ UpdateChart(chartCanvas, historyData, timeRange, customStartYear, y)
  /\ download' = << >>
  /\ UNCHANGED << env, timeRange, customStartYear, selectedCountries, loading,
                  results, historyData, promises, chartCanvas >>
  /\ returned' = ""
  /\ UNCHANGED superseded

\* The CSV button (shown with the results): downloadCSV(historyData()).
DownloadCSV ==
  /\ results # << >>
  /\ download' \in CsvFiles(historyData)
  /\ built' = << >>
  /\ UNCHANGED << env, range, selectedCountries, loading, results, historyData,
                  promises, chartCanvas, chartInstance >>
  /\ returned' = ""
  /\ UNCHANGED superseded

\* The JSON button: downloadJSON(historyData()).
DownloadJSON ==
  /\ results # << >>
  /\ download' \in JsonFiles(historyData)
  /\ built' = << >>
  /\ UNCHANGED << env, range, selectedCountries, loading, results, historyData,
                  promises, chartCanvas, chartInstance >>
  /\ returned' = ""
  /\ UNCHANGED superseded

\* The fetch cycles of the dashboard, from its construction: selecting,
\* fetching, the retrievals settling in any order, the cycle ending.
Next ==
  \/ \E code \in Codes : ToggleCountry(code)
  \/ ClearAll
  \/ FetchRankings
  \/ \E i \in 1 .. Cardinality(Codes) : ResponseArrives(i)
  \/ \E i \in 1 .. Cardinality(Codes), response \in Responses : TaskSettles(i, response)
  \/ \E k \in 1 .. MaxSuperseded : LateResponseArrives(k)
  \/ \E k \in 1 .. MaxSuperseded : LateTaskSettles(k)
  \/ FetchFails
  \/ FetchCompletes

Spec == Init /\ [][Next]_vars

\* ------------------------------------------------------------------------
\* The results view: the range controls and the export buttons, on the state
\* a completed fetch cycle leaves.

\* The selections the fetch button can start from.
Selections == { q \in SeqsUpTo(Codes, Cardinality(Codes)) : Distinct(q) /\ q # << >> }

\* The responses that carry records.
RecordResponses == { r \in Responses : r.kind = "ok" /\ r.rankings # << >> }

\* The promises of a cycle over the selection sel whose tasks have all
\* settled, task i on responses[i].
RECURSIVE SettledTasks(_, _)
SettledTasks(sel, responses) ==
  IF sel = << >> THEN { << >> }
  ELSE LET n == Len(sel)
       IN  { Append(tasks, [code |-> sel[n]] @@ outcome) :
               tasks \in SettledTasks(SubSeq(sel, 1, n - 1), responses),
               outcome \in TaskOutcomes(sel[n], responses[n]) }

\* The state a cycle leaves in which every retrieval brought records.  The
\* chart of that step is not kept: built holds what a step of this
\* specification builds.
InitChart ==
  /\ tzOffset \in TzOffsets
  /\ locale \in Locales
  /\ selectedCountries \in Selections
  /\ timeRange = "all"
  /\ customStartYear = GetFullYear(ConstructedAt) - 10
  /\ customEndYear = GetFullYear(ConstructedAt)
  /\ loading = FALSE
  /\ chartCanvas = TRUE
  /\ chartInstance = << [destroyed |-> 0] >>
  /\ download = << >>
  /\ \E responses \in [DOMAIN selectedCountries -> RecordResponses] :
       \E tasks \in SettledTasks(selectedCountries, responses) :
         /\ promises = tasks
         /\ results = RenderResults(NewResults(tasks))
         /\ historyData = NewHistory(tasks)
         /\ built = << >>
  /\ superseded = << >>
  /\ returned = ""

NextChart ==
  \/ \E r \in TimeRanges : SetTimeRange(r)
  \/ \E y \in YearInputs : SetCustomStartYear(y)
  \/ \E y \in YearInputs : SetCustomEndYear(y)
  \/ DownloadCSV
  \/ DownloadJSON

SpecChart == InitChart /\ [][NextChart]_vars

\* ------------------------------------------------------------------------
\* The relative ranges: the range buttons on histories that lie before, at
\* and after the cutoffs of the model's clock reading.

\* Records around the cutoffs: the third lies exactly one year before the
\* clock reading, the second between one and two years, the first more than
\* two years before it, the last within the year.
RangeRecordPool ==
  { [PubDate |-> UTC(2022, 6, 1, 10),   Rank |-> 9, TotalPoints |-> 1300],
    [PubDate |-> UTC(2023, 6, 1, 10),   Rank |-> 8, TotalPoints |-> 1400],
    [PubDate |-> UTC(2023, 12, 31, 23), Rank |-> 5, TotalPoints |-> 1500],
    [PubDate |-> UTC(2024, 6, 1, 10),   Rank |-> 4, TotalPoints |-> 1600] }

\* The responses that carry records of RangeRecordPool.
RangeResponses ==
  { [kind |-> "ok", rankings |-> q] :
      q \in { r \in SeqsUpTo(RangeRecordPool, MaxRecords) : Distinct(r) /\ r # << >> } }

\* The state a cycle leaves in which every retrieval brought such records.
InitRange ==
  /\ tzOffset \in TzOffsets
  /\ locale \in Locales
  /\ selectedCountries \in Selections
  /\ timeRange = "all"
  /\ customStartYear = GetFullYear(ConstructedAt) - 10
  /\ customEndYear = GetFullYear(ConstructedAt)
  /\ loading = FALSE
  /\ chartCanvas = TRUE
  /\ chartInstance = << [destroyed |-> 0] >>
  /\ download = << >>
  /\ \E responses \in [DOMAIN selectedCountries -> RangeResponses] :
       \E tasks \in SettledTasks(selectedCountries, responses) :
         /\ promises = tasks
         /\ results = RenderResults(NewResults(tasks))
         /\ historyData = NewHistory(tasks)
         /\ built = << >>
  /\ superseded = << >>
  /\ returned = ""

NextRange == \E r \in RelativeRanges \cup { "all" } : SetTimeRange(r)

SpecRange == InitRange /\ [][NextRange]_vars

\* ------------------------------------------------------------------------
\* Malformed timestamps: the results view on histories that hold a record
\* whose PubDate does not parse.

\* A PubDate string that new Date() cannot parse.
Malformed == -2

\* One record with such a PubDate and two well-formed ones.
MalformedRecordPool ==
  { [PubDate |-> Malformed,           Rank |-> 7, TotalPoints |-> 1450],
    [PubDate |-> UTC(2024, 1, 2, 10), Rank |-> 3, TotalPoints |-> 1650],
    [PubDate |-> UTC(2024, 2, 1, 10), Rank |-> 1, TotalPoints |-> 1800] }

\* The responses that carry records of MalformedRecordPool.
MalformedResponses ==
  { [kind |-> "ok", rankings |-> q] :
      q \in { r \in SeqsUpTo(MalformedRecordPool, MaxRecords) :
                Distinct(r) /\ r # << >> } }

\* The state a cycle leaves in which every retrieval brought such records.
InitMalformed ==
  /\ tzOffset \in TzOffsets
  /\ locale \in Locales
  /\ selectedCountries \in Selections
  /\ timeRange = "all"
  /\ customStartYear = GetFullYear(ConstructedAt) - 10
  /\ customEndYear = GetFullYear(ConstructedAt)
  /\ loading = FALSE
  /\ chartCanvas = TRUE
  /\ chartInstance = << [destroyed |-> 0] >>
  /\ download = << >>
  /\ \E responses \in [DOMAIN selectedCountries -> MalformedResponses] :
       \E tasks \in SettledTasks(selectedCountries, responses) :
         /\ promises = tasks
         /\ results = RenderResults(NewResults(tasks))
         /\ historyData = NewHistory(tasks)
         /\ built = << >>
  /\ superseded = << >>
  /\ returned = ""

NextMalformed ==
  \/ \E r \in TimeRanges : SetTimeRange(r)
  \/ DownloadCSV
  \/ DownloadJSON

SpecMalformed == InitMalformed /\ [][NextMalformed]_vars

\* ------------------------------------------------------------------------
\* Nothing selected, nothing to export: the handlers called where their
\* first guard makes them return, on a fresh dashboard and on the state a
\* completed fetch cycle leaves.

\* fetchRankings() with no entity selected: the return of its first line.
FetchRankingsNothingSelected ==
  /\ selectedCountries = << >>
  /\ returned' = "fetchRankings"
  /\ download' = << >>
  /\ built' = << >>
  /\ UNCHANGED << env, range, selectedCountries, loading, results, historyData,
                  promises, chartCanvas, chartInstance, superseded >>

\* downloadCSV(historyData()) on an empty historyData.
DownloadCSVNothing ==
  /\ historyData = << >>
  /\ download' \in CsvFiles(historyData)
  /\ returned' = "downloadCSV"
  /\ built' = << >>
  /\ UNCHANGED << env, range, selectedCountries, loading, results, historyData,
                  promises, chartCanvas, chartInstance, superseded >>

\* downloadJSON(historyData()) on an empty historyData.
DownloadJSONNothing ==
  /\ historyData = << >>
  /\ download' \in JsonFiles(historyData)
  /\ returned' = "downloadJSON"
  /\ built' = << >>
  /\ UNCHANGED << env, range, selectedCountries, loading, results, historyData,
                  promises, chartCanvas, chartInstance, superseded >>

InitNothing == Init \/ InitChart

NextNothing ==
  \/ \E code \in Codes : ToggleCountry(code)
  \/ ClearAll
  \/ FetchRankingsNothingSelected
  \/ DownloadCSVNothing
  \/ DownloadJSONNothing

SpecNothing == InitNothing /\ [][NextNothing]_vars

\* ------------------------------------------------------------------------
\* The palette: the results view on a selection about as large as COLORS,
\* every entity with the same one-record history.

\* The largest selection.
MaxEntities == 31

\* Entity codes for a large selection, numbered.
ManyCodes(n) == [i \in 1 .. n |-> i]

InitColor ==
  /\ tzOffset \in TzOffsets
  /\ locale \in Locales
  /\ selectedCountries \in { ManyCodes(n) : n \in ColorsLength .. MaxEntities }
  /\ timeRange = "all"
  /\ customStartYear = GetFullYear(ConstructedAt) - 10
  /\ customEndYear = GetFullYear(ConstructedAt)
  /\ loading = FALSE
  /\ chartCanvas = TRUE
  /\ chartInstance = << [destroyed |-> 0] >>
  /\ download = << >>
  /\ built = << >>
  /\ \E record \in RecordPool :
       LET tasks == [i \in DOMAIN selectedCountries |->
                       [ code  |-> selectedCountries[i],
                         state |-> "fulfilled",
                         rankings |-> << record >>,
                         value |-> << TaskItem(selectedCountries[i], << record >>) >> ]]
       IN  /\ promises = tasks
           /\ results = RenderResults(NewResults(tasks))
           /\ historyData = NewHistory(tasks)
  /\ superseded = << >>
  /\ returned = ""

NextColor == \E r \in { "all", "custom" } : SetTimeRange(r)

SpecColor == InitColor /\ [][NextColor]_vars

\* ------------------------------------------------------------------------
\* Properties of the fetch cycle (Spec)

\* The last cycle started has returned: fetchRankings ran to its finally.
CycleDone == ~loading /\ promises # << >>

\* The codes with a snapshot in results, the codes that are keys of historyData.
ResultCodes == { results[k].countryCode : k \in DOMAIN results }
HistoryCodes == { historyData[k].code : k \in DOMAIN historyData }

\* Task i brought at least one record.
Succeeded(i) == promises[i].state = "fulfilled" /\ promises[i].value # << >>

\* A cycle over two or more entities in which one retrieval failed and every
\* other one brought records.
OneFailedOthersSucceeded ==
  /\ CycleDone
  /\ Len(promises) >= 2
  /\ \E i \in DOMAIN promises :
       /\ promises[i].state = "rejected"
       /\ \A j \in DOMAIN promises \ { i } : Succeeded(j)

\* C1: when a cycle over two or more entities has completed in which one
\* retrieval failed (the fetch rejected, or the body was not JSON) and every
\* other retrieval brought at least one record, every successful entity has
\* a snapshot in results and its full record list in historyData.
C1_FailureIsolation ==
  OneFailedOthersSucceeded =>
    \A j \in DOMAIN promises :
      Succeeded(j) =>
        /\ promises[j].code \in ResultCodes
        /\ \E k \in DOMAIN historyData :
             /\ historyData[k].code = promises[j].code
             /\ Len(historyData[k].history) = Len(promises[j].rankings)
             /\ Range(historyData[k].history) = Range(promises[j].rankings)

\* C2: in every state, whatever cycles have run, the keys of historyData are
\* the codes with a snapshot in results and no key maps to an empty list;
\* once a cycle has returned, an entity whose retrieval failed or brought no
\* record is in neither.
C2_HistoryKeysAreResultCodes ==
  /\ HistoryCodes = ResultCodes
  /\ \A k \in DOMAIN historyData : historyData[k].history # << >>
  /\ CycleDone =>
       \A i \in DOMAIN promises :
         (promises[i].state = "rejected" \/ promises[i].rankings = << >>) =>
           /\ promises[i].code \notin ResultCodes
           /\ promises[i].code \notin HistoryCodes

\* A cycle over two entities has returned: one retrieval brought no record,
\* the other did and is the only entity in results and in historyData.
C2_Witness ==
  /\ CycleDone
  /\ Len(promises) = 2
  /\ \E i, j \in DOMAIN promises :
       /\ promises[i].state = "fulfilled" /\ promises[i].value = << >>
       /\ Succeeded(j)
       /\ ResultCodes = { promises[j].code }
       /\ HistoryCodes = { promises[j].code }

\* The snapshot s is read off the records q as C3 says: current values
\* from the record with the greatest timestamp, previousRank from the one
\* with the second greatest, or from the current record when it is alone.
SnapshotOf(s, q) ==
  \E c \in DOMAIN q :
    /\ \A i \in DOMAIN q : GetTime(q[i].PubDate) <= GetTime(q[c].PubDate)
    /\ s.rank = q[c].Rank
    /\ s.points = q[c].TotalPoints
    /\ s.date = q[c].PubDate
    /\ IF Len(q) = 1 THEN s.previousRank = q[c].Rank
       ELSE \E p \in DOMAIN q \ { c } :
              /\ \A i \in DOMAIN q \ { c } :
                   GetTime(q[i].PubDate) <= GetTime(q[p].PubDate)
              /\ s.previousRank = q[p].Rank

\* C3: the snapshot of every task that brought records, and the snapshot
\* results holds for it once the cycle has completed, takes rank, points and
\* date from the record received with the greatest timestamp and
\* previousRank from the one with the second greatest timestamp, or from the
\* current record when only one was received.
C3_SnapshotFromLatest ==
  \A i \in DOMAIN promises :
    Succeeded(i) =>
      /\ SnapshotOf(promises[i].value[1].result, promises[i].rankings)
      /\ \A k \in DOMAIN results :
           (CycleDone /\ results[k].countryCode = promises[i].code) =>
             results[k] = promises[i].value[1].result

\* results holds the snapshots of an entity with one record and of an entity
\* whose two records, received oldest first, differ in rank.
C3_Witness ==
  /\ CycleDone
  /\ Len(results) = 2
  /\ \E i, j \in DOMAIN promises :
       /\ Succeeded(i) /\ Len(promises[i].rankings) = 1
       /\ Succeeded(j) /\ Len(promises[j].rankings) = 2
       /\ GetTime(promises[j].rankings[1].PubDate)
            < GetTime(promises[j].rankings[2].PubDate)
       /\ \E k \in DOMAIN results :
            /\ results[k].countryCode = promises[j].code
            /\ results[k].rank = promises[j].rankings[2].Rank
            /\ results[k].previousRank = promises[j].rankings[1].Rank
            /\ results[k].rank # results[k].previousRank

\* ------------------------------------------------------------------------
\* Properties of the chart and of the exports (SpecChart)

\* The chart the step just taken built, the file it handed to the browser.
Chart == built[1]
File == download[1]
IsCsv == download # << >> /\ File.type = "csv"
IsJson == download # << >> /\ File.type = "json"

\* The items of a history that fall under a chart label, under an export date.
ChartSameDay(history, label) ==
  { j \in DOMAIN history : ChartKey(history[j]) = label }
ExportSameDay(history, date) ==
  { j \in DOMAIN history : ExportKey(history[j]) = date }

\* The chronologically latest of the items J of a history.
LatestIn(history, J) ==
  history[CHOOSE j \in J :
            \A k \in J : GetTime(history[k].PubDate) <= GetTime(history[j].PubDate)]

\* C4: when an entity's history holds several records of one day, the chart
\* value at that label, the CSV fields of that row and the JSON entry of
\* that date are those of its chronologically latest record of the day.
C4_LatestRecordOfDay ==
  /\ built # << >> =>
       \A i \in DOMAIN Chart.filteredHistoryData, l \in DOMAIN Chart.labels :
         LET h    == Chart.filteredHistoryData[i].history
             same == ChartSameDay(h, Chart.labels[l])
         IN  Cardinality(same) >= 2 =>
               Chart.datasets[i].data[l] = Num(LatestIn(h, same).Rank)
  /\ IsCsv =>
       \A i \in DOMAIN historyData, r \in DOMAIN File.rows :
         LET h    == historyData[i].history
             same == ExportSameDay(h, File.rows[r].date)
         IN  Cardinality(same) >= 2 =>
               File.rows[r].fields[i] = << Num(LatestIn(h, same).Rank),
                                           Num(LatestIn(h, same).TotalPoints) >>
  /\ IsJson =>
       \A i \in DOMAIN historyData, r \in DOMAIN File.output :
         LET h    == historyData[i].history
             same == ExportSameDay(h, File.output[r].date)
         IN  Cardinality(same) >= 2 =>
               \E e \in DOMAIN File.output[r].entries :
                 File.output[r].entries[e] =
                   [ code   |-> historyData[i].code,
                     rank   |-> LatestIn(h, same).Rank,
                     points |-> LatestIn(h, same).TotalPoints ]

\* The chart labels of the records, the export dates of the records.
ChartKeys(items) == { ChartKey(items[j]) : j \in DOMAIN items }
ExportKeys(items) == { ExportKey(items[j]) : j \in DOMAIN items }

\* C5: whatever the viewer's time zone, two records of the histories charted
\* or exported get the same chart label exactly when they get the same
\* export date, and with the range "all" the chart has as many labels as
\* the export has dates.
C5_OneDayGrouping ==
  /\ (built # << >> \/ download # << >>) =>
       \A x, y \in Range(AllItems(historyData)) :
         (ChartKey(x) = ChartKey(y)) <=> (ExportKey(x) = ExportKey(y))
  /\ (built # << >> /\ timeRange = "all") =>
       Len(Chart.labels) = Cardinality(ExportKeys(AllItems(historyData)))
  /\ IsCsv => Len(File.rows) = Cardinality(ChartKeys(AllItems(historyData)))
  /\ IsJson => Len(File.output) = Cardinality(ChartKeys(AllItems(historyData)))

\* C6, as the specification states it: the chart has at least as many labels
\* as the longest filtered history has records and at most as many as all
\* filtered histories together; the export has at least as many rows as the
\* longest history has records and at most as many as all histories together.
C6_AxisLengthBounds ==
  /\ built # << >> =>
       /\ \A i \in DOMAIN Chart.filteredHistoryData :
            Len(Chart.labels) >= Len(Chart.filteredHistoryData[i].history)
       /\ Len(Chart.labels) <= Len(AllItems(Chart.filteredHistoryData))
  /\ IsCsv =>
       /\ \A i \in DOMAIN historyData : Len(File.rows) >= Len(historyData[i].history)
       /\ Len(File.rows) <= Len(AllItems(historyData))
  /\ IsJson =>
       /\ \A i \in DOMAIN historyData : Len(File.output) >= Len(historyData[i].history)
       /\ Len(File.output) <= Len(AllItems(historyData))

\* C6, amended: the chart has at least as many labels as any one filtered
\* history has different days (chart labels) and at most as many as all
\* filtered histories together have records; the export has at least as many
\* rows as any one history has different days (export dates) and at most as
\* many as all histories together have records.
C6_AxisLengthBoundsByDays ==
  /\ built # << >> =>
       /\ \A i \in DOMAIN Chart.filteredHistoryData :
            Len(Chart.labels)
              >= Cardinality(ChartKeys(Chart.filteredHistoryData[i].history))
       /\ Len(Chart.labels) <= Len(AllItems(Chart.filteredHistoryData))
  /\ IsCsv =>
       /\ \A i \in DOMAIN historyData :
            Len(File.rows) >= Cardinality(ExportKeys(historyData[i].history))
       /\ Len(File.rows) <= Len(AllItems(historyData))
  /\ IsJson =>
       /\ \A i \in DOMAIN historyData :
            Len(File.output) >= Cardinality(ExportKeys(historyData[i].history))
       /\ Len(File.output) <= Len(AllItems(historyData))

\* A chart of two entities: one has two records of one day, the other a
\* record of another day, and the chart has two labels for three records.
C6_Witness ==
  /\ built # << >>
  /\ Len(Chart.filteredHistoryData) = 2
  /\ Len(Chart.labels) = 2
  /\ Len(AllItems(Chart.filteredHistoryData)) = 3
  /\ \E i \in DOMAIN Chart.filteredHistoryData :
       /\ Len(Chart.filteredHistoryData[i].history) = 2
       /\ Cardinality(ChartKeys(Chart.filteredHistoryData[i].history)) = 1

\* C7: at every chart label an entity without a record of that day has the
\* value null and an entity with one has the rank of a record of that day;
\* in every CSV row an entity without a record of that date has two empty
\* fields and an entity with one has the rank and the points of a record of
\* that date, neither field empty.
C7_GapsAreNullNeverZero ==
  /\ built # << >> =>
       \A i \in DOMAIN Chart.filteredHistoryData, l \in DOMAIN Chart.labels :
         LET h    == Chart.filteredHistoryData[i].history
             same == ChartSameDay(h, Chart.labels[l])
             v    == Chart.datasets[i].data[l]
         IN  IF same = {} THEN v = null
             ELSE v # null /\ v # Num(0) /\ \E j \in same : v = Num(h[j].Rank)
  /\ IsCsv =>
       \A i \in DOMAIN historyData, r \in DOMAIN File.rows :
         LET h    == historyData[i].history
             same == ExportSameDay(h, File.rows[r].date)
             f    == File.rows[r].fields[i]
         IN  IF same = {} THEN f = << null, null >>
             ELSE /\ f[1] # null /\ f[2] # null
                  /\ \E j \in same : f = << Num(h[j].Rank), Num(h[j].TotalPoints) >>

\* A chart of two entities with a label at which one has a rank and the
\* other the gap marker, on a historyData whose CSV has a row with an
\* entity's two fields empty and the other's filled.
C7_Witness ==
  /\ built # << >>
  /\ \E i, k \in DOMAIN Chart.datasets, l \in DOMAIN Chart.labels :
       /\ Chart.datasets[i].data[l] = null
       /\ Chart.datasets[k].data[l] # null
  /\ \E file \in CsvFiles(historyData) :
       \E r \in DOMAIN file[1].rows, i, k \in DOMAIN historyData :
         /\ file[1].rows[r].fields[i] = << null, null >>
         /\ file[1].rows[r].fields[k] # << null, null >>

\* The calendar day a chart label stands for, in the viewer's locale, and the
\* day an export date stands for, as day numbers.
LabelDay(label) ==
  IF locale = "en-US" THEN DaysFromCivil(label[3], label[1], label[2])
  ELSE DaysFromCivil(label[3], label[2], label[1])
ExportDay(date) == DaysFromCivil(date[1], date[2], date[3])

\* C8: the chart labels stand for strictly increasing days; the dates of the
\* CSV rows and of the JSON entries are strictly decreasing.
C8_AxisOrder ==
  /\ built # << >> =>
       \A l, m \in DOMAIN Chart.labels :
         l < m => LabelDay(Chart.labels[l]) < LabelDay(Chart.labels[m])
  /\ IsCsv =>
       \A r, q \in DOMAIN File.rows :
         r < q => ExportDay(File.rows[r].date) > ExportDay(File.rows[q].date)
  /\ IsJson =>
       \A r, q \in DOMAIN File.output :
         r < q => ExportDay(File.output[r].date) > ExportDay(File.output[q].date)

\* ------------------------------------------------------------------------
\* Properties of the relative ranges (SpecRange)

\* The instant t shifted back n calendar years, in the viewer's time zone.
ShiftedBack(t, n) == SetFullYear(t, GetFullYear(t) - n)

\* C9: with a relative range of n years the filter keeps a record exactly
\* when its timestamp is at or after the instant now shifted back n calendar
\* years, now being the reading of the clock at any moment of the call (from
\* its first reading to one hour later); with the range "all" it keeps every
\* record.
C9_RelativeCutoff ==
  built # << >> =>
    \A i \in DOMAIN historyData :
      LET h    == historyData[i].history
          kept == Chart.filteredHistoryData[i].history
      IN  IF timeRange \in RelativeRanges
            THEN \A j \in DOMAIN h :
                   LET t == GetTime(h[j].PubDate)
                   IN  /\ t >= ShiftedBack(Chart.now + 1, ParseYears(timeRange))
                          => h[j] \in Range(kept)
                       /\ h[j] \in Range(kept)
                          => t >= ShiftedBack(Chart.now, ParseYears(timeRange))
          ELSE timeRange = "all" => kept = h

\* ------------------------------------------------------------------------
\* Properties of the palette (SpecColor)

\* The colours of a chart's datasets, entity by entity.
BorderColors(chart) == [i \in DOMAIN chart.datasets |-> chart.datasets[i].borderColor]

\* C10: building the chart twice from the same historyData and the same
\* range gives every entity the same colour both times, whatever the number
\* of entities.
C10_ColorsRepeat ==
  [][ ( /\ built # << >>
        /\ built' # << >>
        /\ historyData' = historyData
        /\ << timeRange, customStartYear, customEndYear >>'
             = << timeRange, customStartYear, customEndYear >> )
      => BorderColors(built'[1]) = BorderColors(built[1]) ]_vars

\* ------------------------------------------------------------------------
\* Properties of malformed timestamps (SpecMalformed)

\* The chart labels, the export dates of the well-formed records among items.
WellFormedChartKeys(items) ==
  { ChartKey(items[j]) : j \in { k \in DOMAIN items : GetTime(items[k].PubDate) # NaN } }
WellFormedExportKeys(items) ==
  { ExportKey(items[j]) : j \in { k \in DOMAIN items : GetTime(items[k].PubDate) # NaN } }

\* C11: with a record whose timestamp does not parse, the chart is built and
\* the CSV and JSON exports complete without raising; the chart labels are
\* the labels of the well-formed records charted and the export dates are
\* the dates of the well-formed records, the malformed record adding none.
C11_MalformedTimestampExcluded ==
  /\ built # << >> =>
       Range(Chart.labels) = WellFormedChartKeys(AllItems(Chart.filteredHistoryData))
  /\ download # << >> =>
       /\ download # RangeError
       /\ IsCsv => { File.rows[r].date : r \in DOMAIN File.rows }
                     = WellFormedExportKeys(AllItems(historyData))
       /\ IsJson => { File.output[r].date : r \in DOMAIN File.output }
                      = WellFormedExportKeys(AllItems(historyData))

\* ------------------------------------------------------------------------
\* Properties of the empty selection (SpecNothing)

\* C12: after fetchRankings has been called with no entity selected, results
\* and historyData are empty, whatever an earlier cycle left in them, no
\* retrieval is in flight and loading is false; after downloadCSV or
\* downloadJSON has been called on an empty historyData, no file has been
\* produced and nothing has been raised.
C12_NothingSelectedNothingDone ==
  /\ returned = "fetchRankings" =>
       /\ results = << >>
       /\ historyData = << >>
       /\ ~loading
       /\ \A i \in DOMAIN promises : promises[i].state \notin Unsettled
  /\ returned \in { "downloadCSV", "downloadJSON" } => download = << >>

\* ------------------------------------------------------------------------
\* Properties of superseded cycles (Spec)

\* The step starts a fetch cycle: new promises, all pending.
StartsCycle ==
  /\ loading'
  /\ promises' # promises
  /\ \A i \in DOMAIN promises' : promises'[i].state = "pending"

\* results and historyData hold outputs of the tasks in promises, the cycle
\* started last, and nothing else; all of them when that cycle has returned
\* with every task fulfilled.
HoldsLatestCycleOnly ==
  /\ \A k \in DOMAIN results :
       \E i \in DOMAIN promises :
         Succeeded(i) /\ results[k] = promises[i].value[1].result
  /\ \A k \in DOMAIN historyData :
       \E i \in DOMAIN promises :
         /\ Succeeded(i)
         /\ historyData[k] = [ code    |-> promises[i].value[1].code,
                               history |-> promises[i].value[1].history ]
  /\ (CycleDone /\ \A i \in DOMAIN promises : promises[i].state = "fulfilled") =>
       /\ results = RenderResults(NewResults(promises))
       /\ historyData = NewHistory(promises)

\* C13: in every state results and historyData hold the outputs of the most
\* recently started fetch cycle only, whatever retrievals of earlier cycles
\* settle and whenever; and a fetch cycle starts only while none is in
\* flight (loading is false).
C13_LatestCycleOnly ==
  /\ []HoldsLatestCycleOnly
  /\ [][StartsCycle => ~loading]_vars

\* A retrieval of an earlier cycle has settled, and the cycle started after
\* it has returned with every task fulfilled and has written its results.
C13_Witness ==
  /\ \E k \in DOMAIN superseded : superseded[k].state = "settled"
  /\ CycleDone
  /\ \A i \in DOMAIN promises : promises[i].state = "fulfilled"
  /\ results # << >>
  /\ results = RenderResults(NewResults(promises))

\* ------------------------------------------------------------------------
\* Properties of the chart handle (Spec)

\* C14: whatever updateChart calls have been made (on fetch completion, with
\* or without records), the chart instance the handle refers to has been
\* destroyed at most once.
C14_DestroyedAtMostOnce ==
  chartInstance # << >> => chartInstance[1].destroyed <= 1

=============================================================================
